---- MODULE Spec2Model ----
(***************************************************************************)
(* A model of src/huffman.c: the array-backed binary heap, the Huffman     *)
(* tree build, the code table and its canonical numbering, the container   *)
(* writer (compress) and the container reader (decompress).                *)
(*                                                                         *)
(* Pointers to Node are indices into an arena (a sequence of node          *)
(* records); 0 is the NULL pointer.  C arrays are sequences read with the  *)
(* 0-based index of the source through At/Put.                             *)
(***************************************************************************)
EXTENDS Integers, Sequences, FiniteSets, TLC

VARIABLES
    pc,            \* position of the run in main / in the called function
    inbuf,         \* InputBuffer of the compressing run
    freq,          \* size_t freq[SYMBOL_SIZE]
    symbol_count,  \* out-parameter of freq_table_build
    node_count,    \* out-parameter of freq_table_build
    nodes,         \* arena of the Nodes malloc'ed by the compressing run
    pq,            \* Heap *pq of huffman_tree_from_freq
    ch,            \* loop variable of the leaf loop of huffman_tree_from_freq
    root,          \* Node *root of the compressing run
    ret,           \* value returned by the last heap call
    table,         \* CodeTable of the compressing run
    stream,        \* bytes written to the output stream by compress
    dbuf,          \* InputBuffer of the decompressing run
    maxRead,       \* highest index of dbuf.data read so far (-1: none)
    char_count,    \* uint32_t char_count of the decompressing run
    dtable,        \* CodeTable of the decompressing run
    dnodes,        \* arena of the Nodes malloc'ed by the decompressing run
    droot,         \* Node *root of the decompressing run
    output,        \* bytes written to the output stream by decompress
    rc,            \* return code of decompress (0, -1) or "none"
    freed,         \* the Nodes of nodes passed to free() so far, in order
    dfreed,        \* the Nodes of dnodes passed to free() so far, in order
    wide_shift     \* what this build makes of a uint32_t shifted by 32 or more

vars == <<pc, inbuf, freq, symbol_count, node_count, nodes, pq, ch, root, ret,
          table, stream, dbuf, maxRead, char_count, dtable, dnodes, droot,
          output, rc, freed, dfreed, wide_shift>>

(***************************************************************************)
(* Program constants.                                                      *)
(***************************************************************************)
SYMBOL_SIZE == 128
UINT8_WIDTH == 8
UINT32_WIDTH == 32
UINT8_MOD == 256
NULL == 0

(***************************************************************************)
(* Bounds of the model.                                                    *)
(***************************************************************************)
MaxLen == 5          \* longest input of the compressing run
MaxWeight == 3       \* largest weight inserted in the heap specification
HeapCap == 6         \* capacity of the heap in the heap specification
MaxHeapNodes == 7    \* nodes allocated in the heap specification
MaxFreq == 5         \* largest count in a drawn frequency table
MinFreqSymbols == 2  \* fewest symbols of a drawn frequency table
MaxCount == 2        \* largest original_length of a drawn container
MaxDeclared == 2     \* largest symbol_count of a drawn container
MaxPairs == 2        \* most (symbol, length) pairs of a drawn container
MaxCodeLen == 2      \* largest code length of a drawn container
MaxBody == 1         \* most body bytes of a drawn container
MinDeepSymbols == 32 \* fewest symbols of a Fibonacci frequency table
MaxDeepSymbols == 34 \* most symbols of a Fibonacci frequency table

Alphabet == {101, 104, 108, 111}                 \* 'e' 'h' 'l' 'o'
FreqSymbols == {97, 98, 99, 100, 101, 102}       \* 'a' .. 'f'
DecSymbols == {97, 98}
BodyBytes == {0, 80, 160, 255}
JunkBytes == {0, 1}

(***************************************************************************)
(* Arrays and integer helpers.                                             *)
(***************************************************************************)
At(arr, i) == arr[i + 1]
Put(arr, i, v) == [arr EXCEPT ![i + 1] = v]

Pow2(n) == IF n <= 0 THEN 1 ELSE 2 ^ n

\* A uint32_t is held as the integer with the same 32 bits in two's complement
\* (v below 2^31 as v, v from 2^31 up as v - 2^32), which is how a 32-bit
\* integer type holds it.
\* bit i of a uint32_t, i < UINT32_WIDTH
BitIn(bits, i) ==
    IF i = UINT32_WIDTH - 1 THEN (IF bits < 0 THEN 1 ELSE 0)
    ELSE (bits \div Pow2(i)) % 2

\* x << 1 on a uint32_t: bit 31 is shifted out (1073741824 is 2^30)
Shl1(bits) ==
    IF 0 <= bits /\ bits < 1073741824 THEN 2 * bits
    ELSE 2 * (bits % 1073741824) - BitIn(bits, UINT32_WIDTH - 2) * 1073741824
                                 - BitIn(bits, UINT32_WIDTH - 2) * 1073741824

RECURSIVE ShlBy(_, _)
ShlBy(bits, n) == IF n <= 0 THEN bits ELSE ShlBy(Shl1(bits), n - 1)

\* x + 1 on a uint32_t: 2^31 - 1 becomes 2^31, 2^32 - 1 becomes 0
Inc32(bits) == IF bits = 2147483647 THEN (0 - 2147483647) - 1 ELSE bits + 1

\* Shifting a uint32_t by 32 or more is undefined in C.  The builds differ:
\* the shift instruction of x86 uses the count modulo 32 ("masked"), others
\* shift every bit out ("zero").
WideShiftOutcomes == {"masked", "zero"}

\* (x >> i) & 1 on a uint32_t
Bit(bits, i) ==
    IF i < UINT32_WIDTH THEN BitIn(bits, i)
    ELSE IF wide_shift = "zero" THEN 0
    ELSE BitIn(bits, i % UINT32_WIDTH)

\* x << n on a uint32_t
Shl32(bits, n) ==
    IF n < UINT32_WIDTH THEN ShlBy(bits, n)
    ELSE IF wide_shift = "zero" THEN 0
    ELSE ShlBy(bits, n % UINT32_WIDTH)

\* uint32_be_read / uint32_be_write
uint32_be_read(buf) == buf[1] * 16777216 + buf[2] * 65536 + buf[3] * 256 + buf[4]
uint32_be_write(value) ==
    << (value \div 16777216) % 256, (value \div 65536) % 256,
       (value \div 256) % 256, value % 256 >>

(***************************************************************************)
(* Node                                                                    *)
(***************************************************************************)
Node(symbol, count, left, right) ==
    [symbol |-> symbol, count |-> count, left |-> left, right |-> right]

\* node_new: a zeroed node
node_new(arena) == Append(arena, Node(0, 0, NULL, NULL))
node_new_leaf(arena, symbol, count) == Append(arena, Node(symbol, count, NULL, NULL))
node_new_internal(arena, left, right) ==
    Append(arena, Node(0, arena[left].count + arena[right].count, left, right))

\* node_free: the nodes it passes to free(), in order.  The children are
\* visited only when the node has both, so the only child of a node is not
\* freed.
RECURSIVE node_free(_, _)
node_free(arena, node) ==
    (IF arena[node].left # NULL /\ arena[node].right # NULL
     THEN node_free(arena, arena[node].left) \o node_free(arena, arena[node].right)
     ELSE <<>>) \o <<node>>

(***************************************************************************)
(* Heap                                                                    *)
(***************************************************************************)
NoSlot == -1    \* the NULL result of heap_left_child/heap_right_child/heap_parent

heap_left_child(heap, i) ==
    IF i >= heap.length THEN NoSlot
    ELSE IF 2 * i + 1 >= heap.length THEN NoSlot ELSE 2 * i + 1

heap_right_child(heap, i) ==
    IF i >= heap.length THEN NoSlot
    ELSE IF 2 * i + 2 >= heap.length THEN NoSlot ELSE 2 * i + 2

heap_parent(heap, i) ==
    IF i = 0 \/ i >= heap.length THEN NoSlot ELSE (i - 1) \div 2

heap_new(capacity) ==
    [capacity |-> capacity, length |-> 0, data |-> [i \in 1..capacity |-> NULL]]

NoHeap == [capacity |-> 0, length |-> 0, data |-> <<>>]

\* heap_free: the nodes it passes to free(), one call for each of the `length`
\* slots in use and none for what those nodes point to
heap_free(heap) == [i \in 1..heap.length |-> heap.data[i]]

\* a comparator with the operands exchanged: descending weight
compare_descending(arena, a, b) == arena[b].count - arena[a].count

compare(arena, a, b) == arena[a].count - arena[b].count

\* the while loop of heap_insert
RECURSIVE SiftUp(_, _, _)
SiftUp(arena, heap, hole) ==
    LET parent == heap_parent(heap, hole) IN
    IF parent # NoSlot /\ compare(arena, At(heap.data, hole), At(heap.data, parent)) < 0
    THEN SiftUp(arena,
                [heap EXCEPT !.data = Put(Put(heap.data, hole, At(heap.data, parent)),
                                          parent, At(heap.data, hole))],
                parent)
    ELSE heap

heap_insert(arena, heap, value) ==
    IF heap.length >= heap.capacity
    THEN [rc |-> -1, heap |-> heap]
    ELSE LET hole == heap.length
             h1 == [heap EXCEPT !.length = heap.length + 1,
                                !.data = Put(heap.data, hole, value)]
         IN [rc |-> 0, heap |-> SiftUp(arena, h1, hole)]

\* the while (1) loop of heap_pop: the slot the hole ends in, and the array
RECURSIVE SiftDown(_, _, _)
SiftDown(arena, heap, hole) ==
    LET left == heap_left_child(heap, hole)
        right == heap_right_child(heap, hole)
        lc == IF left # NoSlot THEN arena[At(heap.data, left)].count ELSE 0
        rcnt == IF right # NoSlot THEN arena[At(heap.data, right)].count ELSE 0
        child == IF left # NoSlot /\ right # NoSlot /\ lc # 0 /\ rcnt # 0
                 THEN (IF compare(arena, At(heap.data, left), At(heap.data, right)) < 0
                       THEN left ELSE right)
                 ELSE IF left # NoSlot /\ lc # 0 THEN left
                 ELSE IF right # NoSlot /\ rcnt # 0 THEN right
                 ELSE NoSlot
    IN IF child = NoSlot
       THEN [hole |-> hole, heap |-> heap]
       ELSE SiftDown(arena,
                     [heap EXCEPT !.data = Put(Put(heap.data, hole, At(heap.data, child)),
                                               child, At(heap.data, hole))],
                     child)

heap_pop(arena, heap) ==
    LET rootNode == At(heap.data, 0)
        s == SiftDown(arena, heap, 0)
        last == s.heap.length - 1
    IN [root |-> rootNode,
        heap |-> [s.heap EXCEPT !.length = last,
                                !.data = Put(s.heap.data, s.hole, At(s.heap.data, last))]]

(***************************************************************************)
(* Code, Stack and CodeTable.  A table or stack is its capacity and the    *)
(* sequence of the `length` elements stored so far.                        *)
(***************************************************************************)
Code(symbol, bits, length) == [symbol |-> symbol, bits |-> bits, length |-> length]

code_append(code, bit) ==
    [code EXCEPT !.bits = Shl32(code.bits, 1) + bit,
                 !.length = (code.length + 1) % UINT8_MOD]

stack_new(capacity) == [capacity |-> capacity, data |-> <<>>]

stack_push(st, element) ==
    IF Len(st.data) >= st.capacity
    THEN [rc |-> -1, st |-> st]
    ELSE [rc |-> 0, st |-> [st EXCEPT !.data = Append(st.data, element)]]

code_table_new(capacity) == [capacity |-> capacity, data |-> <<>>]

code_table_insert(tbl, code) ==
    IF Len(tbl.data) >= tbl.capacity
    THEN [rc |-> -1, table |-> tbl]
    ELSE [rc |-> 0, table |-> [tbl EXCEPT !.data = Append(tbl.data, code)]]

\* code_table_find: the 1-based position of the first entry for symbol, 0 if none
code_table_find(tbl, symbol) ==
    LET hits == {i \in 1..Len(tbl.data) : tbl.data[i].symbol = symbol}
    IN IF hits = {} THEN 0 ELSE CHOOSE i \in hits : \A j \in hits : i <= j

\* one turn of the while (st->length > 0) loop of code_table_from_huffman_tree:
\* the top element is popped, a leaf's code is inserted in the table, the
\* children are pushed with their codes
TreeStep(arena, st, tbl) ==
    LET element == st.data[Len(st.data)]
        st1 == [st EXCEPT !.data = SubSeq(st.data, 1, Len(st.data) - 1)]
    IN IF element.node = NULL THEN [error |-> TRUE, st |-> st1, table |-> tbl]
       ELSE
       LET node == arena[element.node]
           isLeaf == node.left = NULL /\ node.right = NULL
           ins == IF isLeaf THEN code_table_insert(tbl, element.code)
                  ELSE [rc |-> 0, table |-> tbl]
           lcode == code_append([element.code EXCEPT !.symbol =
                        IF node.left # NULL THEN arena[node.left].symbol ELSE 0], 0)
           pl == IF node.left # NULL
                 THEN stack_push(st1, [node |-> node.left, code |-> lcode])
                 ELSE [rc |-> 0, st |-> st1]
           rcode == code_append([element.code EXCEPT !.symbol =
                        IF node.right # NULL THEN arena[node.right].symbol ELSE 0], 1)
           pr == IF node.right # NULL
                 THEN stack_push(pl.st, [node |-> node.right, code |-> rcode])
                 ELSE [rc |-> 0, st |-> pl.st]
       IN [error |-> ins.rc < 0 \/ pl.rc < 0 \/ pr.rc < 0, st |-> pr.st,
           table |-> ins.table]

\* up to `turns` turns of the while (st->length > 0) loop of
\* code_table_from_huffman_tree, from the state w of the loop: the loop ends
\* when the stack is empty or a turn fails.  (The turns are run as two halves,
\* so that the depth of TLC's evaluation grows slowly with their number.)
RECURSIVE TreeTurns(_, _, _)
TreeTurns(arena, w, turns) ==
    IF w.error \/ Len(w.st.data) = 0 \/ turns <= 0 THEN w
    ELSE IF turns = 1 THEN TreeStep(arena, w.st, w.table)
    ELSE LET half == TreeTurns(arena, w, turns \div 2)
         IN IF half.error THEN half
            ELSE TreeTurns(arena, half, turns - turns \div 2)

\* the while (st->length > 0) loop of code_table_from_huffman_tree: every turn
\* pops one node of the tree and every node is pushed once, so the loop has
\* at most Len(arena) turns
TreeWalk(arena, st, tbl) ==
    LET w == TreeTurns(arena, [error |-> FALSE, st |-> st, table |-> tbl], Len(arena))
    IN [error |-> w.error, table |-> w.table]

code_table_from_huffman_tree(arena, rootNode, nodeCount) ==
    LET tbl == code_table_new(nodeCount)
        st == stack_new(nodeCount)
        first == stack_push(st, [node |-> rootNode,
                                 code |-> Code(arena[rootNode].symbol, 0, 0)])
    IN IF first.rc < 0
       THEN [error |-> FALSE, table |-> tbl]
       ELSE TreeWalk(arena, first.st, tbl)

(***************************************************************************)
(* Canonical numbering.                                                    *)
(***************************************************************************)
\* a char holding byte b, converted to int (char is signed on the target)
SChar(b) == IF b >= 128 THEN b - 256 ELSE b

code_table_compare(a, b) ==
    IF a.length # b.length THEN a.length - b.length
    ELSE SChar(a.symbol) - SChar(b.symbol)

\* the entries that qsort puts before entry i: the ones that compare lower, and
\* the ones that compare equal and stand before it
Before(data, i) ==
    {j \in 1..Len(data) :
        \/ code_table_compare(data[j], data[i]) < 0
        \/ code_table_compare(data[j], data[i]) = 0 /\ j < i}

\* qsort with code_table_compare: the entries in ascending order
Qsort(data) ==
    [k \in 1..Len(data) |->
        data[CHOOSE i \in 1..Len(data) : Cardinality(Before(data, i)) = k - 1]]

\* one turn of the numbering loop: the cursor after seeing a code of this length
CursorAt(cursor, length) ==
    IF length > cursor.length
    THEN [cursor EXCEPT !.bits = Shl32(cursor.bits, length - cursor.length),
                        !.length = length]
    ELSE cursor

CursorNext(cursor) == [cursor EXCEPT !.bits = Inc32(cursor.bits)]

\* one turn of the for loop of code_table_canonicalize: entry i gets the bits
\* of the cursor
NumberEntry(w, i) ==
    LET c == CursorAt(w.cursor, At(w.data, i).length)
    IN [data |-> Put(w.data, i, [At(w.data, i) EXCEPT !.bits = c.bits]),
        cursor |-> CursorNext(c)]

\* the turns from..(to - 1) of the for loop of code_table_canonicalize.  (The
\* turns are run as two halves, so that the depth of TLC's evaluation grows
\* slowly with their number.)
RECURSIVE NumberRange(_, _, _)
NumberRange(w, from, to) ==
    IF to <= from THEN w
    ELSE IF to = from + 1 THEN NumberEntry(w, from)
    ELSE LET half == NumberRange(w, from, (from + to) \div 2)
         IN IF Len(half.data) = 0 THEN half   \* never: the table holds entry `from`
            ELSE NumberRange(half, (from + to) \div 2, to)

\* the for loop of code_table_canonicalize, from turn i
Number(data, i, cursor) ==
    NumberRange([data |-> data, cursor |-> cursor], i, Len(data)).data

code_table_canonicalize(tbl) ==
    [tbl EXCEPT !.data = Number(Qsort(tbl.data), 0, Code(0, 0, 0))]

(***************************************************************************)
(* compress                                                                *)
(***************************************************************************)
\* the first for loop of compress: the (symbol, length) pairs of the header
HeaderPairs(data, i) ==
    [k \in 1..(2 * (Len(data) - i)) |->
        IF k % 2 = 1 THEN At(data, i + (k - 1) \div 2).symbol % UINT8_MOD
        ELSE At(data, i + (k - 1) \div 2).length % UINT8_MOD]

\* one turn of the inner for loop of compress: bit i of the code is appended to
\* the byte, which is written when it is full
PackBit(code, i, w) ==
    LET b1 == code_append(w.byte, Bit(code.bits, i))
    IN IF b1.length = UINT8_WIDTH
       THEN [byte |-> Code(0, 0, 0), out |-> Append(w.out, b1.bits % UINT8_MOD)]
       ELSE [byte |-> b1, out |-> w.out]

\* the turns i = hi, hi - 1, ..., lo of the inner for loop of compress.  (The
\* turns are run as two halves, so that the depth of TLC's evaluation grows
\* slowly with the number of turns.)
RECURSIVE PackBits(_, _, _, _)
PackBits(code, hi, lo, w) ==
    IF hi < lo THEN w
    ELSE IF hi = lo THEN PackBit(code, hi, w)
    ELSE LET half == PackBits(code, hi, (hi + lo) \div 2 + 1, w)
         IN IF half.byte.length = UINT8_WIDTH THEN half   \* never: a full byte is written
            ELSE PackBits(code, (hi + lo) \div 2, lo, half)

\* the inner for loop of compress: the bits of one code, most significant first
PackCode(code, i, byte, out) == PackBits(code, i, 0, [byte |-> byte, out |-> out])

\* the outer for loop of compress
RECURSIVE PackInput(_, _, _, _, _)
PackInput(buf, i, tbl, byte, out) ==
    IF i >= buf.length THEN [rc |-> 0, byte |-> byte, out |-> out]
    ELSE LET k == code_table_find(tbl, At(buf.data, i))
         IN IF k = 0 THEN [rc |-> -1, byte |-> byte, out |-> out]
            ELSE LET p == PackCode(tbl.data[k], tbl.data[k].length - 1, byte, out)
                 IN PackInput(buf, i + 1, tbl, p.byte, p.out)

compress(buf, tbl) ==
    LET header == uint32_be_write(buf.length)
                  \o <<Len(tbl.data) % UINT8_MOD>> \o HeaderPairs(tbl.data, 0)
        p == PackInput(buf, 0, tbl, Code(0, 0, 0), <<>>)
    IN IF p.rc < 0 THEN [rc |-> -1, out |-> header \o p.out]
       ELSE IF p.byte.length # UINT8_WIDTH
       THEN [rc |-> 0,
             out |-> header \o Append(p.out,
                        Shl32(p.byte.bits, UINT8_WIDTH - p.byte.length) % UINT8_MOD)]
       ELSE [rc |-> 0, out |-> header \o p.out]

(***************************************************************************)
(* The decompressing run.  dbuf.data is the memory of the InputBuffer      *)
(* allocation: the `length` bytes read from the stream, the terminating 0  *)
(* that input_buffer_new stores at data[length], and then the bytes malloc *)
(* left uninitialised, which are whatever the state says they are.         *)
(***************************************************************************)
InputBuffer(data, length) == [data |-> data, length |-> length, position |-> 0]

Max(a, b) == IF a >= b THEN a ELSE b

\* One turn of the for loop of code_table_from_compressed (ParsePair): a
\* (symbol, length) pair is read, numbered by the cursor and inserted in the
\* table.  ParsePair_noshift is the turn without the shift of the cursor when
\* the code length grows.
ParsePair_noshift(w) ==
    LET symbol == At(w.buf.data, w.buf.position)
        length == At(w.buf.data, w.buf.position + 1)
        ins == code_table_insert(w.table, Code(symbol, w.cursor.bits, length))
    IN [error |-> ins.rc < 0,
        buf |-> [w.buf EXCEPT !.position = w.buf.position + 2],
        cursor |-> CursorNext(w.cursor),
        table |-> IF ins.rc < 0 THEN w.table ELSE ins.table,
        maxRead |-> Max(w.maxRead, w.buf.position + 1)]

ParsePair(w) ==
    LET symbol == At(w.buf.data, w.buf.position)
        length == At(w.buf.data, w.buf.position + 1)
        c == CursorAt(w.cursor, length)
        ins == code_table_insert(w.table, Code(symbol, c.bits, length))
    IN [error |-> ins.rc < 0,
        buf |-> [w.buf EXCEPT !.position = w.buf.position + 2],
        cursor |-> CursorNext(c),
        table |-> IF ins.rc < 0 THEN w.table ELSE ins.table,
        maxRead |-> Max(w.maxRead, w.buf.position + 1)]

\* up to `turns` turns of the for loop of code_table_from_compressed, which
\* ends at the first insertion that fails.  (The turns are run as two halves,
\* so that the depth of TLC's evaluation grows slowly with their number.)
RECURSIVE ParseTurns(_, _)
ParseTurns(w, turns) ==
    IF w.error \/ turns <= 0 THEN w
    ELSE IF turns = 1 THEN ParsePair(w)
    ELSE LET half == ParseTurns(w, turns \div 2)
         IN IF half.error THEN half
            ELSE ParseTurns(half, turns - turns \div 2)

\* the for loop of code_table_from_compressed, from turn i
ParsePairs(buf, i, symbolCount, cursor, tbl, seen) ==
    LET w == ParseTurns([error |-> FALSE, buf |-> buf, cursor |-> cursor,
                         table |-> tbl, maxRead |-> seen], symbolCount - i)
    IN [error |-> w.error, table |-> w.table, position |-> w.buf.position,
        maxRead |-> w.maxRead]

code_table_from_compressed(buf) ==
    LET count == uint32_be_read(SubSeq(buf.data, buf.position + 1, buf.position + 4))
        symbolCount == At(buf.data, buf.position + 4)
        buf5 == [buf EXCEPT !.position = buf.position + 5]
        p == ParsePairs(buf5, 0, symbolCount, Code(0, 0, 0),
                        code_table_new(symbolCount), buf.position + 4)
    IN [error |-> p.error, table |-> p.table, char_count |-> count,
        position |-> p.position, maxRead |-> p.maxRead]

\* one turn of the inner for loop of huffman_tree_from_code_table: the step
\* along bit i of the code, to a child that is created when it is missing
WalkBit(w, code, i) ==
    IF Bit(code.bits, i) = 0
    THEN IF w.arena[w.current].left = NULL
         THEN [arena |-> [node_new(w.arena) EXCEPT ![w.current].left = Len(w.arena) + 1],
               current |-> Len(w.arena) + 1]
         ELSE [arena |-> w.arena, current |-> w.arena[w.current].left]
    ELSE IF w.arena[w.current].right = NULL
         THEN [arena |-> [node_new(w.arena) EXCEPT ![w.current].right = Len(w.arena) + 1],
               current |-> Len(w.arena) + 1]
         ELSE [arena |-> w.arena, current |-> w.arena[w.current].right]

\* the turns i = hi, hi - 1, ..., lo of the inner for loop.  (The turns are run
\* as two halves, so that the depth of TLC's evaluation grows slowly with
\* their number.)
RECURSIVE WalkBits(_, _, _, _)
WalkBits(w, code, hi, lo) ==
    IF hi < lo THEN w
    ELSE IF hi = lo THEN WalkBit(w, code, hi)
    ELSE LET half == WalkBits(w, code, hi, (hi + lo) \div 2 + 1)
         IN IF half.current = NULL THEN half   \* never: a missing child is created
            ELSE WalkBits(half, code, (hi + lo) \div 2, lo)

\* the inner for loop of huffman_tree_from_code_table: the walk of one code
WalkCode(arena, current, code, i) ==
    WalkBits([arena |-> arena, current |-> current], code, i, 0)

\* one turn of the outer for loop of huffman_tree_from_code_table: the walk of
\* code i, whose last node gets the symbol
WalkEntry(arena, rootNode, tbl, i) ==
    LET code == At(tbl.data, i)
        w == WalkCode(arena, rootNode, code, code.length - 1)
    IN [w.arena EXCEPT ![w.current].symbol = code.symbol]

\* the turns from..(to - 1) of the outer for loop of
\* huffman_tree_from_code_table.  (The turns are run as two halves, the first
\* evaluated before the second starts, so that the depth of TLC's evaluation
\* grows slowly with their number.)
RECURSIVE WalkRange(_, _, _, _, _)
WalkRange(arena, rootNode, tbl, from, to) ==
    IF to <= from THEN arena
    ELSE IF to = from + 1 THEN WalkEntry(arena, rootNode, tbl, from)
    ELSE LET half == WalkRange(arena, rootNode, tbl, from, (from + to) \div 2)
         IN IF Len(half) = 0 THEN half   \* never: the arena holds the root
            ELSE WalkRange(half, rootNode, tbl, (from + to) \div 2, to)

\* the outer for loop of huffman_tree_from_code_table, from turn i
WalkTable(arena, rootNode, tbl, i) == WalkRange(arena, rootNode, tbl, i, Len(tbl.data))

huffman_tree_from_code_table(tbl) ==
    LET arena == node_new(<<>>)
    IN [error |-> FALSE, root |-> 1, arena |-> WalkTable(arena, 1, tbl, 0)]

\* the inner for loop of decompress: the bits of one body byte.  Following a
\* NULL child and then reading its fields is the crash of the run.  out is the
\* bytes handed to fputc; at a crash the ones stdio still buffers never reach
\* the file.
RECURSIVE DecodeBits(_, _, _, _, _, _)
DecodeBits(arena, rootNode, byte, i, charCount, st) ==
    IF ~(i >= 0 /\ st.processed < charCount) THEN st
    ELSE LET next == IF Bit(byte, i) = 0 THEN arena[st.current].left
                     ELSE arena[st.current].right
         IN IF next = NULL THEN [st EXCEPT !.crash = TRUE]
            ELSE IF arena[next].left = NULL /\ arena[next].right = NULL
            THEN DecodeBits(arena, rootNode, byte, i - 1, charCount,
                            [st EXCEPT !.out = Append(st.out, arena[next].symbol % UINT8_MOD),
                                       !.current = rootNode,
                                       !.processed = st.processed + 1])
            ELSE DecodeBits(arena, rootNode, byte, i - 1, charCount,
                            [st EXCEPT !.current = next])

\* the outer for loop of decompress
RECURSIVE DecodeBytes(_, _, _, _, _, _)
DecodeBytes(buf, arena, rootNode, charCount, i, st) ==
    IF i >= buf.length \/ st.crash THEN st
    ELSE DecodeBytes(buf, arena, rootNode, charCount, i + 1,
                     DecodeBits(arena, rootNode, At(buf.data, i), UINT8_WIDTH - 1,
                                charCount, st))

decompress(buf, arena, rootNode, charCount) ==
    LET st == DecodeBytes(buf, arena, rootNode, charCount, buf.position,
                          [crash |-> FALSE, current |-> rootNode,
                           processed |-> 0, out |-> <<>>])
    IN [crash |-> st.crash, rc |-> 0, out |-> st.out, processed |-> st.processed]

(***************************************************************************)
(* input_buffer_new and freq_table_build                                   *)
(***************************************************************************)
\* The buffer input_buffer_new returns for a stream holding `bytes`; `junk` is
\* the uninitialised rest of the allocation.
input_buffer_new(bytes, junk) == InputBuffer(bytes \o <<0>> \o junk, Len(bytes))

NoBuffer == InputBuffer(<<>>, 0)
NoTable == code_table_new(0)
ZeroFreq == [c \in 0..(SYMBOL_SIZE - 1) |-> 0]

\* the for loop of freq_table_build
RECURSIVE CountSymbols(_, _, _)
CountSymbols(buf, i, acc) ==
    IF i >= buf.length THEN acc
    ELSE LET c == At(buf.data, i)
         IN CountSymbols(buf, i + 1,
                [freq |-> [acc.freq EXCEPT ![c] = acc.freq[c] + 1],
                 symbol_count |-> IF acc.freq[c] = 0 THEN acc.symbol_count + 1
                                  ELSE acc.symbol_count])

\* freq_table_build sizing for the internal nodes only: node_count = n - 1
freq_table_build_internal_only(buf) ==
    LET r == CountSymbols(buf, 0, [freq |-> ZeroFreq, symbol_count |-> 0])
    IN [freq |-> r.freq, symbol_count |-> r.symbol_count,
        node_count |-> r.symbol_count - 1]

\* node_count is a size_t: it wraps for an empty input, which no initial state has
freq_table_build(buf) ==
    LET r == CountSymbols(buf, 0, [freq |-> ZeroFreq, symbol_count |-> 0])
    IN [freq |-> r.freq, symbol_count |-> r.symbol_count,
        node_count |-> 2 * r.symbol_count - 1]

\* the next ch >= from with freq[ch] # 0, SYMBOL_SIZE when the leaf loop is over
NextSymbol(f, from) ==
    LET rest == {c \in from..(SYMBOL_SIZE - 1) : f[c] # 0}
    IN IF rest = {} THEN SYMBOL_SIZE ELSE CHOOSE c \in rest : \A d \in rest : c <= d

(***************************************************************************)
(* The compressing run: case MODE_COMPRESS of main.                        *)
(***************************************************************************)
FreqTableBuild ==
    /\ pc = "start"
    /\ LET r == freq_table_build(inbuf)
       IN /\ freq' = r.freq
          /\ symbol_count' = r.symbol_count
          /\ node_count' = r.node_count
    /\ pc' = "heap_new"
    /\ UNCHANGED <<wide_shift, dfreed, freed, inbuf, nodes, pq, ch, root, ret, table, stream, dbuf, maxRead,
                   char_count, dtable, dnodes, droot, output, rc>>

\* huffman_tree_from_freq: heap_new
HeapNew ==
    /\ pc = "heap_new"
    /\ pq' = heap_new(node_count)
    /\ ch' = 0
    /\ pc' = "build"
    /\ UNCHANGED <<wide_shift, dfreed, freed, inbuf, freq, symbol_count, node_count, nodes, root, ret, table,
                   stream, dbuf, maxRead, char_count, dtable, dnodes, droot, output, rc>>

\* huffman_tree_from_freq: one turn of the leaf loop that allocates a leaf
InsertLeaf ==
    /\ pc = "build"
    /\ NextSymbol(freq, ch) < SYMBOL_SIZE
    /\ LET c == NextSymbol(freq, ch)
           arena == node_new_leaf(nodes, c, freq[c])
           r == heap_insert(arena, pq, Len(arena))
       IN /\ nodes' = arena
          /\ ch' = c + 1
          /\ IF r.rc < 0
             THEN /\ pq' = NoHeap
                  /\ freed' = freed \o heap_free(pq)
                  /\ pc' = "failed"
             ELSE /\ pq' = r.heap
                  /\ freed' = freed
                  /\ pc' = "build"
    /\ UNCHANGED <<wide_shift, dfreed, inbuf, freq, symbol_count, node_count, root, ret, table, stream,
                   dbuf, maxRead, char_count, dtable, dnodes, droot, output, rc>>

\* huffman_tree_from_freq: one turn of while (pq->length > 1)
Merge ==
    /\ pc = "build"
    /\ NextSymbol(freq, ch) = SYMBOL_SIZE
    /\ pq.length > 1
    /\ LET a == heap_pop(nodes, pq)
           b == heap_pop(nodes, a.heap)
           arena == node_new_internal(nodes, a.root, b.root)
           r == heap_insert(arena, b.heap, Len(arena))
       IN /\ nodes' = arena
          /\ IF r.rc < 0
             THEN /\ pq' = NoHeap
                  /\ freed' = freed \o <<a.root, b.root>> \o heap_free(b.heap)
                  /\ pc' = "failed"
             ELSE /\ pq' = r.heap
                  /\ freed' = freed
                  /\ pc' = "build"
    /\ UNCHANGED <<wide_shift, dfreed, inbuf, freq, symbol_count, node_count, ch, root, ret, table, stream,
                   dbuf, maxRead, char_count, dtable, dnodes, droot, output, rc>>

\* huffman_tree_from_freq: root = heap_pop(pq), heap_free(pq), return root
TreeRoot ==
    /\ pc = "build"
    /\ NextSymbol(freq, ch) = SYMBOL_SIZE
    /\ pq.length <= 1
    /\ root' = heap_pop(nodes, pq).root
    /\ freed' = freed \o heap_free(heap_pop(nodes, pq).heap)
    /\ pq' = NoHeap
    /\ pc' = IF root' = NULL THEN "failed" ELSE "codes"
    /\ UNCHANGED <<wide_shift, dfreed, inbuf, freq, symbol_count, node_count, nodes, ch, ret, table, stream,
                   dbuf, maxRead, char_count, dtable, dnodes, droot, output, rc>>

\* code_table_from_huffman_tree; when it fails, main goes to its cleanup label
\* with the tree: node_free(root)
CodeTableFromHuffmanTree ==
    /\ pc = "codes"
    /\ LET r == code_table_from_huffman_tree(nodes, root, node_count)
       IN IF r.error
          THEN /\ table' = NoTable
               /\ freed' = freed \o node_free(nodes, root)
               /\ pc' = "failed"
          ELSE /\ table' = r.table
               /\ freed' = freed
               /\ pc' = "canon"
    /\ UNCHANGED <<wide_shift, dfreed, inbuf, freq, symbol_count, node_count, nodes, pq, ch, root, ret,
                   stream, dbuf, maxRead, char_count, dtable, dnodes, droot, output, rc>>

CodeTableCanonicalize ==
    /\ pc = "canon"
    /\ table' = code_table_canonicalize(table)
    /\ pc' = "compress"
    /\ UNCHANGED <<wide_shift, dfreed, freed, inbuf, freq, symbol_count, node_count, nodes, pq, ch, root, ret,
                   stream, dbuf, maxRead, char_count, dtable, dnodes, droot, output, rc>>

\* compress, then the cleanup label of main, which ends the compressing run:
\* node_free(root)
Compress ==
    /\ pc = "compress"
    /\ LET r == compress(inbuf, table)
       IN /\ stream' = r.out
          /\ pc' = IF r.rc < 0 THEN "failed" ELSE "written"
    /\ freed' = freed \o node_free(nodes, root)
    /\ UNCHANGED <<wide_shift, dfreed, inbuf, freq, symbol_count, node_count, nodes, pq, ch, root, ret,
                   table, dbuf, maxRead, char_count, dtable, dnodes, droot, output, rc>>

(***************************************************************************)
(* The decompressing run: case MODE_DECOMPRESS of main.                    *)
(***************************************************************************)
\* the furthest a header of at most MaxDeclared pairs makes the parser read
MemLen == 5 + 2 * MaxDeclared

\* the possible contents of the uninitialised bytes after a stream of len bytes
JunkSeqs(len) == [1..Max(0, MemLen - len - 1) -> JunkBytes]

\* main reads the container written by the compressing run
InputBufferNew ==
    /\ pc = "written"
    /\ \E junk \in JunkSeqs(Len(stream)) : dbuf' = input_buffer_new(stream, junk)
    /\ pc' = "header"
    /\ UNCHANGED <<wide_shift, dfreed, freed, inbuf, freq, symbol_count, node_count, nodes, pq, ch, root, ret,
                   table, stream, maxRead, char_count, dtable, dnodes, droot, output, rc>>

CodeTableFromCompressed ==
    /\ pc = "header"
    /\ LET r == code_table_from_compressed(dbuf)
       IN /\ char_count' = r.char_count
          /\ dbuf' = [dbuf EXCEPT !.position = r.position]
          /\ maxRead' = r.maxRead
          /\ IF r.error
             THEN /\ dtable' = NoTable
                  /\ pc' = "failed"
             ELSE /\ dtable' = r.table
                  /\ pc' = "dtree"
    /\ UNCHANGED <<wide_shift, dfreed, freed, inbuf, freq, symbol_count, node_count, nodes, pq, ch, root, ret,
                   table, stream, dnodes, droot, output, rc>>

HuffmanTreeFromCodeTable ==
    /\ pc = "dtree"
    /\ LET r == huffman_tree_from_code_table(dtable)
       IN IF r.error
          THEN /\ dnodes' = <<>>
               /\ droot' = NULL
               /\ pc' = "failed"
          ELSE /\ dnodes' = r.arena
               /\ droot' = r.root
               /\ pc' = "decode"
    /\ UNCHANGED <<wide_shift, dfreed, freed, inbuf, freq, symbol_count, node_count, nodes, pq, ch, root, ret,
                   table, stream, dbuf, maxRead, char_count, dtable, output, rc>>

\* decompress, then the cleanup label of main, which ends the decompressing
\* run: node_free(root).  A run that crashes in decompress frees nothing.
Decompress ==
    /\ pc = "decode"
    /\ LET r == decompress(dbuf, dnodes, droot, char_count)
       IN /\ output' = r.out
          /\ IF r.crash
             THEN /\ rc' = "none"
                  /\ dfreed' = dfreed
                  /\ pc' = "crash"
             ELSE /\ rc' = r.rc
                  /\ dfreed' = dfreed \o node_free(dnodes, droot)
                  /\ pc' = "done"
    /\ UNCHANGED <<wide_shift, freed, inbuf, freq, symbol_count, node_count, nodes, pq, ch, root, ret,
                   table, stream, dbuf, maxRead, char_count, dtable, dnodes, droot>>

(***************************************************************************)
(* Calls of the heap interface in any order.                               *)
(***************************************************************************)
HeapInsert(w) ==
    /\ pc = "heap"
    /\ Len(nodes) < MaxHeapNodes
    /\ LET arena == node_new_leaf(nodes, 0, w)
           r == heap_insert(arena, pq, Len(arena))
       IN /\ nodes' = arena
          /\ pq' = r.heap
          /\ ret' = [op |-> "insert", rc |-> r.rc]
    /\ UNCHANGED <<wide_shift, dfreed, freed, pc, inbuf, freq, symbol_count, node_count, ch, root, table, stream,
                   dbuf, maxRead, char_count, dtable, dnodes, droot, output, rc>>

HeapPop ==
    /\ pc = "heap"
    /\ pq.length > 0
    /\ LET r == heap_pop(nodes, pq)
       IN /\ pq' = r.heap
          /\ ret' = [op |-> "pop", node |-> r.root]
    /\ UNCHANGED <<wide_shift, dfreed, freed, pc, inbuf, freq, symbol_count, node_count, nodes, ch, root, table,
                   stream, dbuf, maxRead, char_count, dtable, dnodes, droot, output, rc>>

(***************************************************************************)
(* Initial states and specifications.                                      *)
(***************************************************************************)
\* the non-empty inputs over Alphabet of at most MaxLen bytes
Inputs == UNION {[1..n -> Alphabet] : n \in 1..MaxLen}

\* main has read a non-empty input and is about to compress it.  No code of
\* these inputs reaches UINT32_WIDTH bits, so no shift consults wide_shift.
Init ==
    /\ pc = "start"
    /\ \E x \in Inputs : inbuf = input_buffer_new(x, <<>>)
    /\ freq = ZeroFreq
    /\ symbol_count = 0
    /\ node_count = 0
    /\ nodes = <<>>
    /\ pq = NoHeap
    /\ ch = 0
    /\ root = NULL
    /\ ret = [op |-> "none"]
    /\ table = NoTable
    /\ stream = <<>>
    /\ dbuf = NoBuffer
    /\ maxRead = -1
    /\ char_count = 0
    /\ dtable = NoTable
    /\ dnodes = <<>>
    /\ droot = NULL
    /\ output = <<>>
    /\ rc = "none"
    /\ freed = <<>>
    /\ dfreed = <<>>
    /\ wide_shift = "masked"

Next ==
    \/ FreqTableBuild
    \/ HeapNew
    \/ InsertLeaf
    \/ Merge
    \/ TreeRoot
    \/ CodeTableFromHuffmanTree
    \/ CodeTableCanonicalize
    \/ Compress
    \/ InputBufferNew
    \/ CodeTableFromCompressed
    \/ HuffmanTreeFromCodeTable
    \/ Decompress

Spec == Init /\ [][Next]_vars

\* a heap of HeapCap slots, before any call
InitHeap ==
    /\ pc = "heap"
    /\ inbuf = NoBuffer
    /\ freq = ZeroFreq
    /\ symbol_count = 0
    /\ node_count = 0
    /\ nodes = <<>>
    /\ pq = heap_new(HeapCap)
    /\ ch = 0
    /\ root = NULL
    /\ ret = [op |-> "none"]
    /\ table = NoTable
    /\ stream = <<>>
    /\ dbuf = NoBuffer
    /\ maxRead = -1
    /\ char_count = 0
    /\ dtable = NoTable
    /\ dnodes = <<>>
    /\ droot = NULL
    /\ output = <<>>
    /\ rc = "none"
    /\ freed = <<>>
    /\ dfreed = <<>>
    /\ wide_shift = "masked"

NextHeap ==
    \/ \E w \in 1..MaxWeight : HeapInsert(w)
    \/ HeapPop

SpecHeap == InitHeap /\ [][NextHeap]_vars

\* main has run freq_table_build on an input with this frequency table: counts
\* of 0..MaxFreq for the symbols of FreqSymbols, at least MinFreqSymbols present
InitFreq ==
    /\ pc = "heap_new"
    /\ inbuf = NoBuffer
    /\ \E g \in [FreqSymbols -> 0..MaxFreq] :
          /\ Cardinality({c \in FreqSymbols : g[c] # 0}) >= MinFreqSymbols
          /\ freq = [c \in 0..(SYMBOL_SIZE - 1) |-> IF c \in FreqSymbols THEN g[c] ELSE 0]
          /\ symbol_count = Cardinality({c \in FreqSymbols : g[c] # 0})
          /\ node_count = 2 * Cardinality({c \in FreqSymbols : g[c] # 0}) - 1
    /\ nodes = <<>>
    /\ pq = NoHeap
    /\ ch = 0
    /\ root = NULL
    /\ ret = [op |-> "none"]
    /\ table = NoTable
    /\ stream = <<>>
    /\ dbuf = NoBuffer
    /\ maxRead = -1
    /\ char_count = 0
    /\ dtable = NoTable
    /\ dnodes = <<>>
    /\ droot = NULL
    /\ output = <<>>
    /\ rc = "none"
    /\ freed = <<>>
    /\ dfreed = <<>>
    /\ wide_shift = "masked"

NextFreq ==
    \/ HeapNew
    \/ InsertLeaf
    \/ Merge
    \/ TreeRoot
    \/ CodeTableFromHuffmanTree

SpecFreq == InitFreq /\ [][NextFreq]_vars

\* the bytes of a container file: original_length, symbol_count, the pairs, the body
RECURSIVE Flatten(_)
Flatten(pairs) ==
    IF pairs = <<>> THEN <<>>
    ELSE <<Head(pairs)[1], Head(pairs)[2]>> \o Flatten(Tail(pairs))

ContainerBytes(count, declared, pairs, body) ==
    uint32_be_write(count) \o <<declared>> \o Flatten(pairs) \o body

\* main has read a file and is about to decompress it: any prefix of a
\* container with any declared symbol_count, pairs and body within the bounds
InitDecode ==
    /\ pc = "header"
    /\ inbuf = NoBuffer
    /\ freq = ZeroFreq
    /\ symbol_count = 0
    /\ node_count = 0
    /\ nodes = <<>>
    /\ pq = NoHeap
    /\ ch = 0
    /\ root = NULL
    /\ ret = [op |-> "none"]
    /\ table = NoTable
    /\ stream = <<>>
    /\ \E count \in 0..MaxCount, declared \in 0..MaxDeclared,
          n \in 0..MaxPairs, m \in 0..MaxBody :
       \E pairs \in [1..n -> DecSymbols \X (0..MaxCodeLen)], body \in [1..m -> BodyBytes] :
       \E cut \in 0..(5 + 2 * n + m) :
       \E junk \in JunkSeqs(cut) :
          dbuf = input_buffer_new(
                     SubSeq(ContainerBytes(count, declared, pairs, body), 1, cut), junk)
    /\ maxRead = -1
    /\ char_count = 0
    /\ dtable = NoTable
    /\ dnodes = <<>>
    /\ droot = NULL
    /\ output = <<>>
    /\ rc = "none"
    /\ freed = <<>>
    /\ dfreed = <<>>
    /\ wide_shift = "masked"

NextDecode ==
    \/ CodeTableFromCompressed
    \/ HuffmanTreeFromCodeTable
    \/ Decompress

SpecDecode == InitDecode /\ [][NextDecode]_vars

(***************************************************************************)
(* Properties.                                                             *)
(***************************************************************************)
\* the bytes of the input of the compressing run
InputBytes == SubSeq(inbuf.data, 1, inbuf.length)

\* the compressing run, then the decompressing run, has come to an end
RunOver == pc \in {"done", "crash", "failed"}

\* C1: round trip.  For every non-empty input over bytes 0..127, the
\* decompressing run on the container written by the compressing run ends
\* normally and has emitted exactly the input.
C1_RoundTrip == RunOver => (pc = "done" /\ rc = 0 /\ output = InputBytes)

\* C2: single-symbol input.  For an input made of one symbol repeated, the
\* container written has a code table of exactly 1 entry, and the
\* decompressing run on it completes and emits the same symbols.
C2_SingleSymbolRoundTrip ==
    symbol_count = 1 =>
        /\ (pc = "written" => Len(table.data) = 1 /\ stream[5] = 1)
        /\ (RunOver => (pc = "done" /\ rc = 0 /\ output = InputBytes))

\* the file is shorter than the 5 fixed header bytes, or declares more
\* (symbol, length) pairs than it holds
Malformed ==
    \/ dbuf.length < 5
    \/ At(dbuf.data, 4) * 2 > dbuf.length - 5

\* C3: malformed header.  On a file whose declared symbol_count is larger than
\* the number of pairs present, or that is shorter than 5 bytes,
\* code_table_from_compressed reports an error and reads no byte at an index
\* >= the length of the file.
C3_MalformedHeaderRejected ==
    (pc # "header" /\ Malformed) => (pc = "failed" /\ maxRead < dbuf.length)

\* C4: canonical determinism between encoder and decoder.  The table that
\* code_table_from_compressed rebuilds from the header of a container written
\* by compress has, for every symbol, the bit pattern and length that
\* code_table_canonicalize gave it in the compressing run.
C4_CanonicalDeterminism ==
    pc \in {"dtree", "decode", "done", "crash"} =>
        \A c \in 0..(SYMBOL_SIZE - 1) :
            LET i == code_table_find(table, c)
                j == code_table_find(dtable, c)
            IN /\ (i = 0) <=> (j = 0)
               /\ i # 0 => /\ table.data[i].bits = dtable.data[j].bits
                           /\ table.data[i].length = dtable.data[j].length

\* a table of at least three codes of at least two lengths has been rebuilt
C4_Witness ==
    /\ pc = "dtree"
    /\ Len(dtable.data) >= 3
    /\ \E i, j \in 1..Len(dtable.data) : dtable.data[i].length < dtable.data[j].length
    /\ \E i \in 1..Len(dtable.data) : dtable.data[i].bits # 0

\* the non-zero counts of a frequency table, in symbol order
RECURSIVE WeightsOf(_, _)
WeightsOf(f, S) ==
    IF S = {} THEN <<>>
    ELSE LET c == CHOOSE x \in S : \A y \in S : x <= y
         IN <<f[c]>> \o WeightsOf(f, S \ {c})

Weights(f) == WeightsOf(f, {c \in DOMAIN f : f[c] # 0})

MinIndex(ws) == CHOOSE i \in 1..Len(ws) : \A j \in 1..Len(ws) : ws[i] <= ws[j]
Remove(ws, i) == SubSeq(ws, 1, i - 1) \o SubSeq(ws, i + 1, Len(ws))

\* the weighted total of a Huffman code built by always merging the two
\* lowest weights: the sum of the weights of the merged nodes
RECURSIVE ReferenceCost(_)
ReferenceCost(ws) ==
    IF Len(ws) <= 1 THEN 0
    ELSE LET i == MinIndex(ws)
             w1 == Remove(ws, i)
             j == MinIndex(w1)
             w2 == Remove(w1, j)
         IN ws[i] + w1[j] + ReferenceCost(Append(w2, ws[i] + w1[j]))

\* sum(freq[s] * length[s]) over the entries of a table
RECURSIVE WeightedLength(_, _, _)
WeightedLength(tbl, f, i) ==
    IF i >= Len(tbl.data) THEN 0
    ELSE f[At(tbl.data, i).symbol] * At(tbl.data, i).length + WeightedLength(tbl, f, i + 1)

\* C5: optimality.  For every frequency table with at least two symbols, the
\* code lengths derived from the tree built by huffman_tree_from_freq have the
\* weighted total of a Huffman construction that always merges the two
\* lowest-weight nodes.
C5_OptimalLengths ==
    (pc = "canon" /\ symbol_count >= 2) =>
        WeightedLength(table, freq, 0) = ReferenceCost(Weights(freq))

\* the sum of the code lengths of the input symbols
RECURSIVE TotalBits(_, _, _)
TotalBits(buf, tbl, i) ==
    IF i >= buf.length THEN 0
    ELSE tbl.data[code_table_find(tbl, At(buf.data, i))].length + TotalBits(buf, tbl, i + 1)

\* the number of bytes compress has written after the header
BodyLength == Len(stream) - (5 + 2 * Len(table.data))

\* C6: body length.  The number of packed bytes compress writes after the
\* header is ceil(totalBits / 8), totalBits being the sum of the code lengths
\* of the input symbols.
C6_BodyLength ==
    pc = "written" => BodyLength = (TotalBits(inbuf, table, 0) + 7) \div 8

\* C7: header integrity.  Whenever decompress returns success it has emitted
\* exactly original_length symbols.
C7_EmittedEqualsOriginalLength ==
    (pc = "done" /\ rc = 0) => Len(output) = char_count

\* the code length the header of a container gives a symbol (-1: absent)
HeaderLength(bytes, symbol) ==
    LET hits == {k \in 0..(bytes[5] - 1) : bytes[6 + 2 * k] = symbol}
    IN IF hits = {} THEN -1
       ELSE bytes[7 + 2 * (CHOOSE k \in hits : \A l \in hits : k <= l)]

Hello == <<104, 101, 108, 108, 111>>

\* C8 as stated: compressing "hello" gives length 1 to l and length 3 to each
\* of h, e and o.
C8_HelloLengthsAsStated ==
    (pc = "written" /\ InputBytes = Hello) =>
        /\ HeaderLength(stream, 108) = 1
        /\ HeaderLength(stream, 104) = 3
        /\ HeaderLength(stream, 101) = 3
        /\ HeaderLength(stream, 111) = 3

\* C8 amended: compressing "hello" gives length 1 to l, length 2 to o and
\* length 3 to each of h and e.
C8_HelloLengths ==
    (pc = "written" /\ InputBytes = Hello) =>
        /\ stream[5] = 4
        /\ HeaderLength(stream, 108) = 1
        /\ HeaderLength(stream, 111) = 2
        /\ HeaderLength(stream, 104) = 3
        /\ HeaderLength(stream, 101) = 3

\* "hello" has been compressed
C8_Witness == pc = "written" /\ InputBytes = Hello

\* C9: heap extract-min.  Every heap_pop on a non-empty heap returns a node
\* whose weight is the minimum of the weights stored: no node left in the heap
\* is lighter than the node returned.
C9_PopReturnsMinimum ==
    ret.op = "pop" =>
        \A i \in 0..(pq.length - 1) :
            nodes[ret.node].count <= nodes[At(pq.data, i)].count

\* the bits of a code, most significant first
CodeBits(code) == [k \in 1..code.length |-> Bit(code.bits, code.length - k)]

IsPrefix(s, t) == Len(s) <= Len(t) /\ SubSeq(t, 1, Len(s)) = s

\* one code of the table is a prefix of, or equal to, another
PrefixViolating(tbl) ==
    \E i, j \in 1..Len(tbl.data) :
        i # j /\ IsPrefix(CodeBits(tbl.data[i]), CodeBits(tbl.data[j]))

\* the node of a tree that the bits of a code lead to
RECURSIVE NodeOf(_, _, _, _)
NodeOf(arena, current, code, i) ==
    IF i < 0 \/ current = NULL THEN current
    ELSE NodeOf(arena,
                IF Bit(code.bits, i) = 0 THEN arena[current].left ELSE arena[current].right,
                code, i - 1)

\* C10: prefix-violating code table.  Given a table in which one code is a
\* prefix of, or equal to, another, huffman_tree_from_code_table returns an
\* error; in the tree it returns, the node of every code is a leaf still
\* carrying the symbol of that code.
C10_PrefixViolationRejected ==
    /\ (PrefixViolating(dtable) /\ pc # "dtree") => pc = "failed"
    /\ pc \in {"decode", "done", "crash"} =>
          \A i \in 1..Len(dtable.data) :
              LET n == NodeOf(dnodes, droot, dtable.data[i], dtable.data[i].length - 1)
              IN /\ dnodes[n].left = NULL /\ dnodes[n].right = NULL
                 /\ dnodes[n].symbol = dtable.data[i].symbol

(***************************************************************************)
(* huffman_tree_from_freq when malloc returns NULL.  pc = "nomem" is main  *)
(* after the function has returned from its cleanup label for that reason. *)
(***************************************************************************)
\* heap_new returns NULL: pq is NULL, nothing to free
HeapNewFails ==
    /\ pc = "heap_new"
    /\ pq' = NoHeap
    /\ root' = NULL
    /\ pc' = "nomem"
    /\ UNCHANGED <<wide_shift, dfreed, inbuf, freq, symbol_count, node_count, nodes, ch, ret, table, stream,
                   dbuf, maxRead, char_count, dtable, dnodes, droot, output, rc, freed>>

\* node_new_leaf returns NULL in the leaf loop: goto cleanup, heap_free(pq)
InsertLeafFails ==
    /\ pc = "build"
    /\ NextSymbol(freq, ch) < SYMBOL_SIZE
    /\ ch' = NextSymbol(freq, ch)
    /\ freed' = freed \o heap_free(pq)
    /\ pq' = NoHeap
    /\ root' = NULL
    /\ pc' = "nomem"
    /\ UNCHANGED <<wide_shift, dfreed, inbuf, freq, symbol_count, node_count, nodes, ret, table, stream,
                   dbuf, maxRead, char_count, dtable, dnodes, droot, output, rc>>

\* node_new_internal returns NULL in the merge loop: free(a), free(b), goto
\* cleanup, heap_free(pq)
MergeFails ==
    /\ pc = "build"
    /\ NextSymbol(freq, ch) = SYMBOL_SIZE
    /\ pq.length > 1
    /\ LET a == heap_pop(nodes, pq)
           b == heap_pop(nodes, a.heap)
       IN freed' = freed \o <<a.root, b.root>> \o heap_free(b.heap)
    /\ pq' = NoHeap
    /\ root' = NULL
    /\ pc' = "nomem"
    /\ UNCHANGED <<wide_shift, dfreed, inbuf, freq, symbol_count, node_count, nodes, ch, ret, table, stream,
                   dbuf, maxRead, char_count, dtable, dnodes, droot, output, rc>>

NextAlloc ==
    \/ FreqTableBuild
    \/ HeapNew
    \/ HeapNewFails
    \/ InsertLeaf
    \/ InsertLeafFails
    \/ Merge
    \/ MergeFails
    \/ TreeRoot

\* the tree build of the compressing run, any allocation of which may fail
SpecAlloc == Init /\ [][NextAlloc]_vars

\* the number of calls of free() on a node
FreeCount(n) == Cardinality({i \in 1..Len(freed) : freed[i] = n})

\* C11: allocation failure during the tree build.  When a node or heap
\* allocation fails in huffman_tree_from_freq, the function returns NULL and
\* every node allocated so far in the call has been freed exactly once.
C11_AllocFailureFreesAll ==
    pc = "nomem" =>
        /\ root = NULL
        /\ \A n \in 1..Len(nodes) : FreeCount(n) = 1

(***************************************************************************)
(* The code tables of the compressing run, from drawn frequency tables.    *)
(***************************************************************************)
NextCanon ==
    \/ HeapNew
    \/ InsertLeaf
    \/ Merge
    \/ TreeRoot
    \/ CodeTableFromHuffmanTree
    \/ CodeTableCanonicalize

SpecCanon == InitFreq /\ [][NextCanon]_vars

\* the counts of the symbols: the Fibonacci sequence
FibCounts ==
    << 1, 1, 2, 3, 5, 8, 13, 21,
       34, 55, 89, 144, 233, 377, 610, 987,
       1597, 2584, 4181, 6765, 10946, 17711, 28657, 46368,
       75025, 121393, 196418, 317811, 514229, 832040, 1346269, 2178309,
       3524578, 5702887, 9227465, 14930352 >>

\* main has run freq_table_build on an input of n distinct symbols, the bytes
\* 48, 49, ..., whose counts are the Fibonacci sequence: the input that needs
\* the longest codes for its length (n = 34 is an input of 14930351 bytes).
\* Codes of UINT32_WIDTH bits and more arise, so wide_shift is consulted.
InitDeep ==
    /\ pc = "heap_new"
    /\ inbuf = NoBuffer
    /\ \E n \in MinDeepSymbols..MaxDeepSymbols :
          /\ freq = [c \in 0..(SYMBOL_SIZE - 1) |->
                        IF c \in 48..(47 + n) THEN FibCounts[c - 47] ELSE 0]
          /\ symbol_count = n
          /\ node_count = 2 * n - 1
    /\ nodes = <<>>
    /\ pq = NoHeap
    /\ ch = 0
    /\ root = NULL
    /\ ret = [op |-> "none"]
    /\ table = NoTable
    /\ stream = <<>>
    /\ dbuf = NoBuffer
    /\ maxRead = -1
    /\ char_count = 0
    /\ dtable = NoTable
    /\ dnodes = <<>>
    /\ droot = NULL
    /\ output = <<>>
    /\ rc = "none"
    /\ freed = <<>>
    /\ dfreed = <<>>
    /\ wide_shift \in WideShiftOutcomes

SpecDeep == InitDeep /\ [][NextCanon]_vars

\* C12: prefix-free codes.  In every code table code_table_canonicalize
\* produces from the code lengths of a tree built by huffman_tree_from_freq,
\* no entry's bit pattern, taken over its length most significant bit first,
\* is a prefix of another entry's.
C12_PrefixFree == pc = "compress" => ~PrefixViolating(table)

\* the largest length the stack of code_table_from_huffman_tree would reach on
\* a tree if no push failed: st is the nodes on the stack, peak the largest
\* length so far
RECURSIVE StackPeak(_, _, _)
StackPeak(arena, st, peak) ==
    IF Len(st) = 0 THEN peak
    ELSE LET node == arena[st[Len(st)]]
             st1 == SubSeq(st, 1, Len(st) - 1)
             st2 == IF node.left # NULL THEN Append(st1, node.left) ELSE st1
             st3 == IF node.right # NULL THEN Append(st2, node.right) ELSE st2
         IN StackPeak(arena, st3, Max(peak, Max(Len(st2), Len(st3))))

\* C13: capacity is never exceeded.  With every capacity set to
\* node_count = 2n - 1 by freq_table_build, no heap_insert of
\* huffman_tree_from_freq and no stack_push or code_table_insert of
\* code_table_from_huffman_tree fails for lack of capacity: the compressing
\* run never fails, the heap and the table stay within their capacity, the
\* stack needs at most node_count slots and the table receives all n codes.
C13_CapacityNeverExceeded ==
    /\ pc # "failed"
    /\ pq.length <= pq.capacity
    /\ Len(table.data) <= table.capacity
    /\ root # NULL => StackPeak(nodes, <<root>>, 1) <= node_count
    /\ pc \in {"canon", "compress", "written"} => Len(table.data) = symbol_count

\* the code table of a tree of at least three leaves has been derived, the
\* stack having held three elements
C13_Witness ==
    /\ pc = "canon"
    /\ symbol_count >= 3
    /\ Len(table.data) = symbol_count
    /\ StackPeak(nodes, <<root>>, 1) >= 3

(***************************************************************************)
(* The compressing and decompressing runs on longer inputs: the input is   *)
(* made of one run per symbol, so that every frequency table of InitFreq   *)
(* is the table of an input.                                               *)
(***************************************************************************)
\* g[c] times the byte c, for the symbols c of S in increasing order
RECURSIVE RunsOf(_, _)
RunsOf(g, S) ==
    IF S = {} THEN <<>>
    ELSE LET c == CHOOSE x \in S : \A y \in S : x <= y
         IN [i \in 1..g[c] |-> c] \o RunsOf(g, S \ {c})

\* main has read an input with at least MinFreqSymbols distinct symbols: the
\* first k symbols of FreqSymbols, each 1..MaxFreq times
InitRuns ==
    /\ pc = "start"
    /\ \E g \in [FreqSymbols -> 0..MaxFreq] :
          /\ Cardinality({c \in FreqSymbols : g[c] # 0}) >= MinFreqSymbols
          /\ \A c \in FreqSymbols : \A d \in FreqSymbols : (g[c] # 0 /\ d < c) => g[d] # 0
          /\ inbuf = input_buffer_new(RunsOf(g, FreqSymbols), <<>>)
    /\ freq = ZeroFreq
    /\ symbol_count = 0
    /\ node_count = 0
    /\ nodes = <<>>
    /\ pq = NoHeap
    /\ ch = 0
    /\ root = NULL
    /\ ret = [op |-> "none"]
    /\ table = NoTable
    /\ stream = <<>>
    /\ dbuf = NoBuffer
    /\ maxRead = -1
    /\ char_count = 0
    /\ dtable = NoTable
    /\ dnodes = <<>>
    /\ droot = NULL
    /\ output = <<>>
    /\ rc = "none"
    /\ freed = <<>>
    /\ dfreed = <<>>
    /\ wide_shift = "masked"

SpecRuns == InitRuns /\ [][Next]_vars

\* the leaves of an arena: the nodes without children
Leaves(arena) ==
    {n \in 1..Len(arena) : arena[n].left = NULL /\ arena[n].right = NULL}

\* the nodes of the arena form one full binary tree under the node r: every
\* node has two children or none, the children of a node are two nodes made
\* before it, r is the child of no node and every other node is the child of
\* exactly one
IsFullTree(arena, r) ==
    /\ \A n \in 1..Len(arena) :
          \/ arena[n].left = NULL /\ arena[n].right = NULL
          \/ /\ arena[n].left \in 1..(n - 1)
             /\ arena[n].right \in 1..(n - 1)
             /\ arena[n].left # arena[n].right
    /\ \A n \in 1..Len(arena) :
          Cardinality({m \in 1..Len(arena) : arena[m].left = n}) +
          Cardinality({m \in 1..Len(arena) : arena[m].right = n})
              = (IF n = r THEN 0 ELSE 1)

\* The round trip of the one-byte input <<s>> under a code table: the container
\* compress writes for it is parsed, its tree rebuilt and its body decoded.  The
\* body of the container of any input that starts with s starts with the same
\* bits, and the decompressing run walks them from the root of the same tree:
\* the round trip of that input emits s first only if this one emits s.
FirstSymbolRoundTrip(tbl, s) ==
    \E c \in {compress(input_buffer_new(<<s>>, <<>>), tbl)} :
    \E buf \in {input_buffer_new(c.out, <<>>)} :
    \E h \in {code_table_from_compressed(buf)} :
    \E t \in {huffman_tree_from_code_table(h.table)} :
    \E d \in {decompress([buf EXCEPT !.position = h.position], t.arena, t.root,
                         h.char_count)} :
        /\ c.rc = 0
        /\ ~h.error
        /\ ~t.error
        /\ ~d.crash
        /\ d.out = <<s>>

\* C14: for every input with at least two distinct symbols, the decompressing
\* run on the container written by the compressing run emits exactly the
\* input, whichever nodes heap_pop returned during the build: the built tree
\* is a full binary tree with exactly one leaf per distinct symbol, and under
\* its canonical code table every symbol, as the first byte of an input,
\* comes back as the first byte emitted.
C14_RoundTripTwoOrMoreSymbols ==
    /\ (RunOver /\ symbol_count >= 2) =>
          (pc = "done" /\ rc = 0 /\ output = InputBytes)
    /\ (root # NULL /\ symbol_count >= 2) =>
          /\ IsFullTree(nodes, root)
          /\ Cardinality(Leaves(nodes)) = symbol_count
          /\ {nodes[n].symbol : n \in Leaves(nodes)} = {c \in DOMAIN freq : freq[c] # 0}
    /\ (pc = "compress" /\ symbol_count >= 2) =>
          \A k \in 1..Len(table.data) : FirstSymbolRoundTrip(table, table.data[k].symbol)

====
